---- MODULE Spec2Model ----
(***************************************************************************)
(* Model of the upload queue of the bot: QueueManager (queue_manager.py),  *)
(* the chunked upload loop it offloads to a thread (drive_service.py       *)
(* upload_file) and the way main.py drives it.                             *)
(*                                                                         *)
(* Scheduling.  Everything in QueueManager runs on one asyncio event loop, *)
(* so a coroutine runs without interruption from one suspending await to   *)
(* the next.  The suspending awaits are the network calls (reply_text,     *)
(* edit_text, download_to_memory), run_in_executor and asyncio.sleep;      *)
(* "await queue.get()" on a non-empty queue and "await queue.put()" on an  *)
(* unbounded queue do not suspend.  Each action below is one such atomic   *)
(* stretch of code, named after the await whose completion starts it.      *)
(*                                                                         *)
(* main.py builds the Application without concurrent_updates, so update    *)
(* handlers run one after another: at most one of add_job / pause_bot /    *)
(* resume_bot is in progress at a time (the handler coroutine h below).    *)
(* The worker task, the upload threads and the progress callbacks run      *)
(* concurrently with the handler.                                          *)
(***************************************************************************)
EXTENDS Integers, Sequences, FiniteSets

\* ---------------------------------------------------------------- bounds
\* A run is bounded by the work the environment gives the bot: the jobs
\* submitted plus the progress events reported (chunks that are not the
\* last of their file) number at most MaxWork.
MaxWork == 3

\* The throttle window of progress_callback_async, in seconds.
ThrottleSeconds == 2

Jobs == 1..MaxWork
\* Task slots for worker activations.  The code keeps one reference
\* (worker_task); a second slot lets the model represent two activations
\* alive at once should the code ever create them.
Workers == 1..2

VARIABLES
    \* ---- QueueManager fields (queue_manager.py:14-18)
    queue,              \* asyncio.Queue contents, head first
    is_processing,
    paused,
    worker_task,        \* 0 = None, else the slot of the task
    last_update_time,   \* message id -> seconds since the recorded time
                        \*   (capped), -1 = no entry
    \* ---- jobs
    nextJob,            \* number of jobs created so far; ids in creation order
    status,             \* lifecycle state of each job
    handle,             \* last text written to each job's status message
    \* ---- the update handler in progress (add_job / pause_bot)
    hpc, hjob, htemp, hidx, hcount,
    \* ---- worker activations
    wpc, wjob, wtemp, widx, wraise, wcancel,
    \* ---- upload_file running in the executor thread of each job
    tpc,
    nprogress,          \* progress events reported so far, over all uploads
    \* ---- progress callbacks
    cbsched,            \* progress_callback_async coroutines scheduled on
                        \*   the loop (line 152) that have not run, per job
    cbfly,              \* progress edit_text calls in flight, per job
    \* ---- history
    started,            \* jobs in the order the worker dequeued them
    pauseWaiting,       \* jobs waiting when the pause_bot in progress was
                        \*   invoked
    pauseHadActive,     \* that pause_bot found an active job
    pauseActive,        \* jobs that were active when a pause_bot was invoked
    resumed,            \* resume_bot has run
    freshJobs,          \* jobs admitted after a resume_bot, no pause_bot
                        \*   invoked since their admission
    \* ---- observations of the upload threads and the status writes
    afterPause,         \* per job: -1, or the chunks its upload thread has
                        \*   uploaded since a pause_bot set the flag while
                        \*   the thread was running (capped)
    lastProgress,       \* per job: seconds since the throttle last let a
                        \*   progress update through (capped), -1 = never;
                        \*   followed while the upload thread runs
    writeFailed,        \* jobs for which an edit_text outside try/except
                        \*   raised (lines 125, 132, 173)
    pauseRepeat,        \* the pause_bot in progress was invoked while
                        \*   paused was already true
    editSwallowed       \* an edit_text inside try/except has raised and
                        \*   the exception was swallowed

qmVars == <<queue, is_processing, paused, worker_task, last_update_time>>
jobVars == <<nextJob, status, handle>>
hVars == <<hpc, hjob, htemp, hidx, hcount>>
wVars == <<wpc, wjob, wtemp, widx, wraise, wcancel>>
tVars == <<tpc, nprogress>>
cbVars == <<cbsched, cbfly>>
histVars == <<started, pauseWaiting, pauseHadActive, pauseActive,
              resumed, freshJobs>>
obsVars == <<afterPause, lastProgress, writeFailed, pauseRepeat,
             editSwallowed>>
vars == <<qmVars, jobVars, hVars, wVars, tVars, cbVars, histVars, obsVars>>

\* ---------------------------------------------------------------- texts
Msg(t) == [text |-> t, pos |-> 0]
PosMsg(i) == [text |-> "Position", pos |-> i]

Terminal == {"Completed", "Failed", "Cancelled"}
Active == {"Downloading", "Uploading"}

\* An edit_text inside try/except: when the call goes through (ok), text
\* m is written to job j's status message; when it raises, the exception
\* is swallowed, the text stays as it was and the code goes on.
Edit(hd, j, m, ok) == IF ok THEN [hd EXCEPT ![j] = m] ELSE hd

\* ---------------------------------------------------------------- Init
Init ==
    /\ queue = <<>>
    /\ is_processing = FALSE
    /\ paused = FALSE
    /\ worker_task = 0
    /\ last_update_time = [j \in Jobs |-> -1]
    /\ nextJob = 0
    /\ status = [j \in Jobs |-> "None"]
    /\ handle = [j \in Jobs |-> Msg("none")]
    /\ hpc = "idle" /\ hjob = 0 /\ htemp = <<>> /\ hidx = 0 /\ hcount = 0
    /\ wpc = [k \in Workers |-> "none"]
    /\ wjob = [k \in Workers |-> 0]
    /\ wtemp = [k \in Workers |-> <<>>]
    /\ widx = [k \in Workers |-> 0]
    /\ wraise = [k \in Workers |-> FALSE]
    /\ wcancel = [k \in Workers |-> FALSE]
    /\ tpc = [j \in Jobs |-> "none"]
    /\ nprogress = 0
    /\ cbsched = [j \in Jobs |-> 0]
    /\ cbfly = [j \in Jobs |-> 0]
    /\ started = <<>>
    /\ pauseWaiting = {}
    /\ pauseHadActive = FALSE
    /\ pauseActive = {}
    /\ resumed = FALSE
    /\ freshJobs = {}
    /\ afterPause = [j \in Jobs |-> -1]
    /\ lastProgress = [j \in Jobs |-> -1]
    /\ writeFailed = {}
    /\ pauseRepeat = FALSE
    /\ editSwallowed = FALSE

\* The work given so far: jobs built, a submission being admitted, and
\* progress events.
Work == nextJob + nprogress + (IF hpc = "queued_reply" THEN 1 ELSE 0)

\* ------------------------------------------------- decisions of the code
\* Mutant: the paused check of add_job is missing.
Rejects_Never == FALSE

\* add_job line 22: a submission is refused while the bot is paused.
Rejects == paused

\* Mutants: add_job creates a worker task for every job / for none.
ShouldStartWorker_Always == TRUE
ShouldStartWorker_Never == FALSE

\* add_job line 38: a worker task is created only when none is processing.
ShouldStartWorker == ~is_processing

\* worker line 87: the loop condition, evaluated on queue contents q.
WorkerContinues(q) == q # <<>> /\ ~paused

\* pause_bot line 60: there is a worker task and it has not finished.
WorkerTaskLive == worker_task # 0 /\ wpc[worker_task] # "none"

\* process_job lines 154-155: the predicate the upload thread polls.
check_cancelled == paused

\* An upload thread of job j is running.
Uploads(j) == tpc[j] \in {"poll", "chunk"}

\* progress_callback_async may still run for a job whose upload thread is
\* at t with c callbacks scheduled: it then reads the time recorded for it.
CallbackAhead(t, c) == t \in {"poll", "chunk"} \/ c > 0

\* progress_callback_async line 142: the throttle lets an update through.
ThrottleOpen(j) ==
    last_update_time[j] = -1 \/ last_update_time[j] > ThrottleSeconds

\* A task created by asyncio.create_task runs its first step before any
\* coroutine that still has a network round trip ahead of it: the loop's
\* ready queue is FIFO.  Every handler of main.py awaits a network call
\* (get_file, reply_text) before it reaches add_job or pause_bot, so no
\* handler step is taken while a created worker has yet to start.
NoTaskPendingStart == \A k \in Workers : wpc[k] # "created"

\* The slot a new task takes: the lowest free one.
HasFreeSlot == \E k \in Workers : wpc[k] = "none"
FreeSlot == CHOOSE k \in Workers :
                /\ wpc[k] = "none"
                /\ \A m \in Workers : wpc[m] = "none" => k <= m

\* Task.cancel() of pause_bot line 61: the worker's next step is the
\* delivery of CancelledError at the await it is suspended in.
CancelWorker ==
    IF WorkerTaskLive THEN [wcancel EXCEPT ![worker_task] = TRUE] ELSE wcancel

\* ---------------------------------------------------------------- add_job
\* add_job lines 20-26: the paused check, then the reply is awaited.
AddJobBegin ==
    /\ hpc = "idle"
    /\ NoTaskPendingStart
    /\ IF Rejects
       THEN hpc' = "reject_reply"
       ELSE Work < MaxWork /\ hpc' = "queued_reply"
    /\ UNCHANGED <<hjob, htemp, hidx, hcount>>
    /\ UNCHANGED <<qmVars, jobVars, wVars, tVars, cbVars, histVars>>
    /\ UNCHANGED obsVars

\* add_job lines 23-24: the rejection reply returned (or raised); return.
AddJobRejected ==
    /\ hpc = "reject_reply"
    /\ hpc' = "idle"
    /\ UNCHANGED <<hjob, htemp, hidx, hcount>>
    /\ UNCHANGED <<qmVars, jobVars, wVars, tVars, cbVars, histVars>>
    /\ UNCHANGED obsVars

\* add_job lines 26-42: the "Queued..." reply returned.  The job is built
\* and put on the queue; then either the worker task is created or
\* update_queue_status starts (lines 71-78: the queue is emptied into
\* temp_list and the first edit is awaited).  If reply_text raised,
\* add_job ends with no job built.
AddJobAdmit ==
    /\ hpc = "queued_reply"
    /\ \E ok \in BOOLEAN :
        IF ~ok
        THEN /\ hpc' = "idle"
             /\ UNCHANGED <<hjob, htemp, hidx, hcount>>
             /\ UNCHANGED <<qmVars, jobVars, wVars, histVars>>
        ELSE LET j == nextJob + 1
                 q1 == Append(queue, j)
             IN /\ nextJob' = j
                /\ status' = [status EXCEPT ![j] = "Queued"]
                /\ handle' = [handle EXCEPT ![j] = Msg("Queued")]
                /\ freshJobs' = IF resumed THEN freshJobs \cup {j}
                                            ELSE freshJobs
                /\ IF ShouldStartWorker
                   THEN /\ HasFreeSlot
                        /\ wpc' = [wpc EXCEPT ![FreeSlot] = "created"]
                        /\ worker_task' = FreeSlot
                        /\ queue' = q1
                        /\ hpc' = "idle"
                        /\ UNCHANGED <<htemp, hidx>>
                   ELSE /\ htemp' = q1
                        /\ hidx' = 1
                        /\ queue' = <<>>
                        /\ hpc' = "add_uqs_edit"
                        /\ UNCHANGED <<wpc, worker_task>>
                /\ UNCHANGED <<hjob, hcount>>
                /\ UNCHANGED <<is_processing, paused, last_update_time>>
                /\ UNCHANGED <<wjob, wtemp, widx, wraise, wcancel>>
                /\ UNCHANGED <<started, pauseWaiting, pauseHadActive,
                               pauseActive, resumed>>
    /\ UNCHANGED <<tVars, cbVars>>
    /\ UNCHANGED obsVars

\* update_queue_status lines 75-81 run by add_job (line 42): the edit of
\* temp_list[hidx] returned or raised (swallowed); the job is put back;
\* the next edit is awaited, or update_queue_status and add_job return.
AddJobUqsStep ==
    /\ hpc = "add_uqs_edit"
    /\ \E ok \in BOOLEAN :
          /\ handle' = Edit(handle, htemp[hidx], PosMsg(hidx), ok)
          /\ editSwallowed' = (editSwallowed \/ ~ok)
    /\ UNCHANGED <<afterPause, lastProgress, writeFailed, pauseRepeat>>
    /\ queue' = Append(queue, htemp[hidx])
    /\ IF hidx < Len(htemp)
       THEN hidx' = hidx + 1 /\ UNCHANGED <<hpc, htemp>>
       ELSE hpc' = "idle" /\ htemp' = <<>> /\ hidx' = 0
    /\ UNCHANGED <<hjob, hcount>>
    /\ UNCHANGED <<is_processing, paused, worker_task, last_update_time>>
    /\ UNCHANGED <<nextJob, status>>
    /\ UNCHANGED <<wVars, tVars, cbVars, histVars>>

\* -------------------------------------------------------------- pause_bot
\* Mutant: pause_bot counts its own call as a drained job.
PauseFinish_CountsCall(n) ==
    /\ wcancel' = CancelWorker
    /\ hcount' = n + 1
    /\ hpc' = "pause_reply"
    /\ hjob' = 0

\* pause_bot lines 59-63 once the drain loop has ended: cancel the worker
\* task if it is live and return n to pause_command, which awaits the
\* "Bot Paused" reply (main.py lines 45-54).
PauseFinish(n) ==
    /\ wcancel' = CancelWorker
    /\ hcount' = n
    /\ hpc' = "pause_reply"
    /\ hjob' = 0

\* pause_bot lines 46-53: set the flag; with an empty queue go straight to
\* the cancel, otherwise take the head job and await the edit of its
\* status message.
PauseBegin ==
    /\ hpc = "idle"
    /\ NoTaskPendingStart
    /\ paused' = TRUE
    /\ pauseWaiting' = {j \in Jobs : status[j] = "Queued"}
    /\ pauseHadActive' = (\E j \in Jobs : status[j] \in Active)
    /\ pauseActive' = pauseActive \cup {j \in Jobs : status[j] \in Active}
    /\ freshJobs' = {}
    /\ pauseRepeat' = paused
    /\ afterPause' = [j \in Jobs |->
                         IF Uploads(j) /\ afterPause[j] = -1
                         THEN 0 ELSE afterPause[j]]
    /\ UNCHANGED <<lastProgress, writeFailed, editSwallowed>>
    /\ IF queue = <<>>
       THEN /\ PauseFinish(0)
            /\ UNCHANGED queue
       ELSE /\ hjob' = Head(queue)
            /\ queue' = Tail(queue)
            /\ hcount' = 0
            /\ hpc' = "drain_edit"
            /\ UNCHANGED wcancel
    /\ UNCHANGED <<htemp, hidx>>
    /\ UNCHANGED <<is_processing, worker_task, last_update_time>>
    /\ UNCHANGED <<wpc, wjob, wtemp, widx, wraise>>
    /\ UNCHANGED <<started, resumed>>
    /\ UNCHANGED <<jobVars, tVars, cbVars>>

\* pause_bot lines 50-63: the edit of the drained job's message returned or
\* raised (swallowed); task_done, count it, and take the next job or leave
\* the loop.
PauseDrainStep ==
    /\ hpc = "drain_edit"
    /\ \E ok \in BOOLEAN :
          /\ handle' = Edit(handle, hjob, Msg("PauseNotice"), ok)
          /\ editSwallowed' = (editSwallowed \/ ~ok)
    /\ UNCHANGED <<afterPause, lastProgress, writeFailed, pauseRepeat>>
    /\ status' = [status EXCEPT ![hjob] = "Cancelled"]
    /\ IF queue # <<>>
       THEN /\ hjob' = Head(queue)
            /\ queue' = Tail(queue)
            /\ hcount' = hcount + 1
            /\ UNCHANGED <<hpc, wcancel>>
       ELSE /\ PauseFinish(hcount + 1)
            /\ UNCHANGED queue
    /\ UNCHANGED <<htemp, hidx>>
    /\ UNCHANGED <<is_processing, paused, worker_task, last_update_time>>
    /\ UNCHANGED nextJob
    /\ UNCHANGED <<wpc, wjob, wtemp, widx, wraise>>
    /\ UNCHANGED <<tVars, cbVars, histVars>>

\* main.py lines 47-54: the "Bot Paused" reply carrying the count returned;
\* pause_command ends.
PauseReplied ==
    /\ hpc = "pause_reply"
    /\ hpc' = "idle"
    /\ hcount' = 0
    /\ pauseWaiting' = {}
    /\ pauseHadActive' = FALSE
    /\ pauseRepeat' = FALSE
    /\ UNCHANGED <<afterPause, lastProgress, writeFailed, editSwallowed>>
    /\ UNCHANGED <<hjob, htemp, hidx>>
    /\ UNCHANGED <<started, pauseActive, resumed, freshJobs>>
    /\ UNCHANGED <<qmVars, jobVars, wVars, tVars, cbVars>>

\* Mutant: resume_bot also restarts the worker loop.
ResumeBot_RestartsWorker ==
    /\ hpc = "idle"
    /\ paused
    /\ HasFreeSlot
    /\ paused' = FALSE
    /\ resumed' = TRUE
    /\ wpc' = [wpc EXCEPT ![FreeSlot] = "created"]
    /\ worker_task' = FreeSlot
    /\ UNCHANGED <<queue, is_processing, last_update_time>>
    /\ UNCHANGED <<wjob, wtemp, widx, wraise, wcancel>>
    /\ UNCHANGED <<started, pauseWaiting, pauseHadActive, pauseActive,
                   freshJobs>>
    /\ UNCHANGED <<jobVars, hVars, tVars, cbVars, obsVars>>

\* ------------------------------------------------------------- resume_bot
\* resume_bot lines 65-67, called by main.py start (line 25) only while
\* paused.
ResumeBot ==
    /\ hpc = "idle"
    /\ paused
    /\ paused' = FALSE
    /\ resumed' = TRUE
    /\ UNCHANGED <<queue, is_processing, worker_task, last_update_time>>
    /\ UNCHANGED <<started, pauseWaiting, pauseHadActive, pauseActive,
                   freshJobs>>
    /\ UNCHANGED <<jobVars, hVars, wVars, tVars, cbVars>>
    /\ UNCHANGED obsVars

\* ----------------------------------------------------------------- worker
\* Mutant: the finally of the worker leaves is_processing as it is.
WorkerLeaves_FlagKept(k) ==
    /\ wpc' = [wpc EXCEPT ![k] = "none"]
    /\ wjob' = [wjob EXCEPT ![k] = 0]
    /\ wtemp' = [wtemp EXCEPT ![k] = <<>>]
    /\ widx' = [widx EXCEPT ![k] = 0]
    /\ wraise' = [wraise EXCEPT ![k] = FALSE]
    /\ wcancel' = [wcancel EXCEPT ![k] = FALSE]
    /\ UNCHANGED is_processing
    /\ worker_task' = 0

\* worker lines 108-112: the activation ends.
WorkerLeaves(k) ==
    /\ wpc' = [wpc EXCEPT ![k] = "none"]
    /\ wjob' = [wjob EXCEPT ![k] = 0]
    /\ wtemp' = [wtemp EXCEPT ![k] = <<>>]
    /\ widx' = [widx EXCEPT ![k] = 0]
    /\ wraise' = [wraise EXCEPT ![k] = FALSE]
    /\ wcancel' = [wcancel EXCEPT ![k] = FALSE]
    /\ is_processing' = FALSE
    /\ worker_task' = 0

\* Mutant: the worker reads the head job without taking it off the queue.
WorkerLoop_LeavesJobOnQueue(k, q, ip) ==
    IF WorkerContinues(q)
    THEN /\ queue' = q
         /\ wpc' = [wpc EXCEPT ![k] = "edit_dl"]
         /\ wjob' = [wjob EXCEPT ![k] = Head(q)]
         /\ wtemp' = [wtemp EXCEPT ![k] = <<>>]
         /\ widx' = [widx EXCEPT ![k] = 0]
         /\ wraise' = [wraise EXCEPT ![k] = FALSE]
         /\ wcancel' = [wcancel EXCEPT ![k] = FALSE]
         /\ is_processing' = ip
         /\ UNCHANGED worker_task
         /\ status' = [status EXCEPT ![Head(q)] = "Downloading"]
         /\ started' = Append(started, Head(q))
    ELSE /\ wpc' = [wpc EXCEPT ![k] = "none"]
         /\ wjob' = [wjob EXCEPT ![k] = 0]
         /\ wtemp' = [wtemp EXCEPT ![k] = <<>>]
         /\ widx' = [widx EXCEPT ![k] = 0]
         /\ wraise' = [wraise EXCEPT ![k] = FALSE]
         /\ wcancel' = [wcancel EXCEPT ![k] = FALSE]
         /\ is_processing' = FALSE
         /\ worker_task' = 0
         /\ queue' = q
         /\ UNCHANGED <<status, started>>

\* worker lines 87-90 and process_job line 125, with q the queue contents
\* and ip the value of is_processing: while the loop condition holds the
\* head job is taken and the edit to "Downloading" is awaited; otherwise
\* the activation ends.
WorkerLoop(k, q, ip) ==
    IF WorkerContinues(q)
    THEN /\ queue' = Tail(q)
         /\ wpc' = [wpc EXCEPT ![k] = "edit_dl"]
         /\ wjob' = [wjob EXCEPT ![k] = Head(q)]
         /\ wtemp' = [wtemp EXCEPT ![k] = <<>>]
         /\ widx' = [widx EXCEPT ![k] = 0]
         /\ wraise' = [wraise EXCEPT ![k] = FALSE]
         /\ wcancel' = [wcancel EXCEPT ![k] = FALSE]
         /\ is_processing' = ip
         /\ UNCHANGED worker_task
         /\ status' = [status EXCEPT ![Head(q)] = "Downloading"]
         /\ started' = Append(started, Head(q))
    ELSE /\ WorkerLeaves(k)
         /\ queue' = q
         /\ UNCHANGED <<status, started>>

\* worker lines 104-107 (the finally of one job), r telling whether a
\* CancelledError is propagating: task_done, then update_queue_status
\* lines 71-78 empties the queue into temp_list and awaits the first edit.
\* With nothing queued update_queue_status returns at once and the loop
\* condition of line 87 (or the propagating CancelledError) ends the
\* activation.
WorkerFinally(k, r) ==
    IF queue = <<>>
    THEN /\ WorkerLeaves(k)
         /\ UNCHANGED queue
    ELSE /\ queue' = <<>>
         /\ wpc' = [wpc EXCEPT ![k] = "uqs_edit"]
         /\ wjob' = [wjob EXCEPT ![k] = 0]
         /\ wtemp' = [wtemp EXCEPT ![k] = queue]
         /\ widx' = [widx EXCEPT ![k] = 1]
         /\ wraise' = [wraise EXCEPT ![k] = r]
         /\ wcancel' = [wcancel EXCEPT ![k] = FALSE]
         /\ UNCHANGED <<is_processing, worker_task>>

\* process_job line 186: the finally of the upload block.
PopUpdateTime(j) == [last_update_time EXCEPT ![j] = -1]

\* A worker step that only moves on inside process_job / the handlers of
\* worker lines 91-103.
WorkerGoes(k, pc) ==
    /\ wpc' = [wpc EXCEPT ![k] = pc]
    /\ wcancel' = [wcancel EXCEPT ![k] = FALSE]
    /\ UNCHANGED <<wjob, wtemp, widx, wraise>>
    /\ UNCHANGED <<queue, is_processing, worker_task>>

\* Mutant: the worker does not raise is_processing when it starts.
WorkerStart_FlagNotSet(k) ==
    /\ wpc[k] = "created"
    /\ WorkerLoop(k, queue, is_processing)
    /\ UNCHANGED <<paused, last_update_time, nextJob, handle>>
    /\ UNCHANGED <<pauseWaiting, pauseHadActive, pauseActive, resumed,
                   freshJobs>>
    /\ UNCHANGED <<hVars, tVars, cbVars>>
    /\ UNCHANGED obsVars

\* worker lines 85-88: the first step of the task.
WorkerStart(k) ==
    /\ wpc[k] = "created"
    /\ WorkerLoop(k, queue, TRUE)
    /\ UNCHANGED <<paused, last_update_time, nextJob, handle>>
    /\ UNCHANGED <<pauseWaiting, pauseHadActive, pauseActive, resumed,
                   freshJobs>>
    /\ UNCHANGED <<hVars, tVars, cbVars>>
    /\ UNCHANGED obsVars

\* process_job lines 125-129: the "Downloading" edit returned, the download
\* is awaited; if the edit raised, worker line 98 catches it and awaits the
\* "Error" edit.
DownloadingEditDone(k) ==
    /\ wpc[k] = "edit_dl" /\ ~wcancel[k]
    /\ \E ok \in BOOLEAN :
        IF ok
        THEN /\ handle' = [handle EXCEPT ![wjob[k]] = Msg("Downloading")]
             /\ WorkerGoes(k, "download")
             /\ UNCHANGED status
        ELSE /\ WorkerGoes(k, "edit_err")
             /\ status' = [status EXCEPT ![wjob[k]] = "Failed"]
             /\ UNCHANGED handle
    /\ writeFailed' = IF wpc'[k] = "edit_err"
                      THEN writeFailed \cup {wjob[k]} ELSE writeFailed
    /\ UNCHANGED <<afterPause, lastProgress, pauseRepeat, editSwallowed>>
    /\ UNCHANGED <<paused, last_update_time, nextJob>>
    /\ UNCHANGED <<hVars, tVars, cbVars, histVars>>

\* process_job lines 129-132: download_to_memory returned, the "Uploading"
\* edit is awaited; if it raised, worker line 98 catches it.
DownloadDone(k) ==
    /\ wpc[k] = "download" /\ ~wcancel[k]
    /\ \E ok \in BOOLEAN :
        IF ok
        THEN /\ WorkerGoes(k, "edit_ul")
             /\ status' = [status EXCEPT ![wjob[k]] = "Uploading"]
        ELSE /\ WorkerGoes(k, "edit_err")
             /\ status' = [status EXCEPT ![wjob[k]] = "Failed"]
    /\ UNCHANGED <<paused, last_update_time, nextJob, handle>>
    /\ UNCHANGED <<hVars, tVars, cbVars, histVars>>
    /\ UNCHANGED obsVars

\* process_job lines 132-169: the "Uploading" edit returned;
\* get_drive_service returns a service, raises GoogleAuthError or raises
\* something else; with a service upload_file is handed to the executor
\* and awaited.  If the edit raised, worker line 98 catches it.
UploadingEditDone(k) ==
    /\ wpc[k] = "edit_ul" /\ ~wcancel[k]
    /\ \E ok \in BOOLEAN :
        IF ok
        THEN /\ handle' = [handle EXCEPT ![wjob[k]] = Msg("Uploading")]
             /\ UNCHANGED status
             /\ \E svc \in {"service", "auth", "error"} :
                 /\ WorkerGoes(k, CASE svc = "service" -> "executor"
                                    [] svc = "auth" -> "edit_auth"
                                    [] OTHER -> "edit_fail")
                 /\ tpc' = IF svc = "service"
                           THEN [tpc EXCEPT ![wjob[k]] = "poll"]
                           ELSE tpc
        ELSE /\ WorkerGoes(k, "edit_err")
             /\ status' = [status EXCEPT ![wjob[k]] = "Failed"]
             /\ UNCHANGED <<handle, tpc>>
    /\ writeFailed' = IF wpc'[k] = "edit_err"
                      THEN writeFailed \cup {wjob[k]} ELSE writeFailed
    /\ UNCHANGED <<afterPause, lastProgress, pauseRepeat, editSwallowed>>
    /\ UNCHANGED <<paused, last_update_time, nextJob, nprogress>>
    /\ UNCHANGED <<hVars, cbVars, histVars>>

\* process_job lines 169-184: the executor future is done.  An id leads to
\* the sleep of line 172; the "cancelled by admin" exception is turned
\* into CancelledError (line 180), which leaves process_job through the
\* finally of line 186 and is caught by worker line 91; any other
\* exception leads to the "Upload failed" edit of line 184.  The thread
\* hands both its progress callbacks and its result to the loop with
\* call_soon_threadsafe, in that order, and the loop's ready queue is FIFO:
\* the worker is resumed after every callback scheduled by the thread has
\* run its first step.
ExecutorDone(k) ==
    /\ wpc[k] = "executor" /\ ~wcancel[k]
    /\ tpc[wjob[k]] \in {"returned", "raised_cancelled", "raised_error"}
    /\ cbsched[wjob[k]] = 0
    /\ CASE tpc[wjob[k]] = "returned" ->
              /\ WorkerGoes(k, "sleep")
              /\ UNCHANGED <<status, last_update_time>>
         [] tpc[wjob[k]] = "raised_cancelled" ->
              /\ WorkerGoes(k, "edit_stop")
              /\ status' = [status EXCEPT ![wjob[k]] = "Cancelled"]
              /\ last_update_time' = PopUpdateTime(wjob[k])
         [] OTHER ->
              /\ WorkerGoes(k, "edit_fail")
              /\ UNCHANGED <<status, last_update_time>>
    /\ UNCHANGED <<paused, nextJob, handle>>
    /\ UNCHANGED <<hVars, tVars, cbVars, histVars>>
    /\ UNCHANGED obsVars

\* process_job lines 172-173: the sleep is over, the success edit is
\* awaited.
SleepDone(k) ==
    /\ wpc[k] = "sleep" /\ ~wcancel[k]
    /\ WorkerGoes(k, "edit_ok")
    /\ UNCHANGED <<paused, last_update_time>>
    /\ UNCHANGED <<jobVars, hVars, tVars, cbVars, histVars>>
    /\ UNCHANGED obsVars

\* process_job lines 173-186 and worker lines 104-107: the success edit
\* returned, process_job returns through its finally and the worker's
\* finally runs; if the edit raised, line 175 catches it and the
\* "Upload failed" edit of line 184 is awaited.
SuccessEditDone(k) ==
    /\ wpc[k] = "edit_ok" /\ ~wcancel[k]
    /\ \E ok \in BOOLEAN :
        IF ok
        THEN /\ handle' = [handle EXCEPT ![wjob[k]] = Msg("Success")]
             /\ status' = [status EXCEPT ![wjob[k]] = "Completed"]
             /\ last_update_time' = PopUpdateTime(wjob[k])
             /\ WorkerFinally(k, FALSE)
        ELSE /\ WorkerGoes(k, "edit_fail")
             /\ UNCHANGED <<handle, status, last_update_time>>
    /\ writeFailed' = IF wpc'[k] = "edit_fail"
                      THEN writeFailed \cup {wjob[k]} ELSE writeFailed
    /\ UNCHANGED <<afterPause, lastProgress, pauseRepeat, editSwallowed>>
    /\ UNCHANGED <<paused, nextJob>>
    /\ UNCHANGED <<hVars, tVars, cbVars, histVars>>

\* process_job lines 181-186: the "Drive Auth Error" / "Upload failed"
\* edit returned and process_job returns normally; if it raised, the
\* exception leaves process_job and worker line 98 catches it.
FailEditDone(k) ==
    /\ wpc[k] \in {"edit_auth", "edit_fail"} /\ ~wcancel[k]
    /\ status' = [status EXCEPT ![wjob[k]] = "Failed"]
    /\ last_update_time' = PopUpdateTime(wjob[k])
    /\ \E ok \in BOOLEAN :
        IF ok
        THEN /\ handle' = [handle EXCEPT ![wjob[k]] =
                    IF wpc[k] = "edit_auth" THEN Msg("AuthError")
                                            ELSE Msg("UploadFailed")]
             /\ WorkerFinally(k, FALSE)
        ELSE /\ WorkerGoes(k, "edit_err")
             /\ UNCHANGED handle
    /\ UNCHANGED <<paused, nextJob>>
    /\ UNCHANGED <<hVars, tVars, cbVars, histVars>>
    /\ UNCHANGED obsVars

\* worker lines 93-97 and 104-107: the "force-stopped" edit returned or
\* raised (swallowed); CancelledError is re-raised through the finally.
StopEditDone(k) ==
    /\ wpc[k] = "edit_stop" /\ ~wcancel[k]
    /\ \E ok \in BOOLEAN :
          /\ handle' = Edit(handle, wjob[k], Msg("ForceStopped"), ok)
          /\ editSwallowed' = (editSwallowed \/ ~ok)
    /\ UNCHANGED <<afterPause, lastProgress, writeFailed, pauseRepeat>>
    /\ WorkerFinally(k, TRUE)
    /\ UNCHANGED <<paused, last_update_time, nextJob, status>>
    /\ UNCHANGED <<hVars, tVars, cbVars, histVars>>

\* worker lines 100-107: the "Error" edit returned or raised (swallowed);
\* the finally runs.
ErrorEditDone(k) ==
    /\ wpc[k] = "edit_err" /\ ~wcancel[k]
    /\ \E ok \in BOOLEAN :
          /\ handle' = Edit(handle, wjob[k], Msg("Error"), ok)
          /\ editSwallowed' = (editSwallowed \/ ~ok)
    /\ UNCHANGED <<afterPause, lastProgress, writeFailed, pauseRepeat>>
    /\ WorkerFinally(k, FALSE)
    /\ UNCHANGED <<paused, last_update_time, nextJob, status>>
    /\ UNCHANGED <<hVars, tVars, cbVars, histVars>>

\* update_queue_status lines 75-81 run by the worker (line 107): the edit
\* of temp_list[widx] returned or raised (swallowed); the job is put back;
\* the next edit is awaited, or update_queue_status returns and the worker
\* either re-raises the pending CancelledError (ending the activation at
\* line 108) or evaluates the loop condition of line 87.
WorkerUqsStep(k) ==
    /\ wpc[k] = "uqs_edit" /\ ~wcancel[k]
    /\ \E ok \in BOOLEAN :
          /\ handle' = Edit(handle, wtemp[k][widx[k]], PosMsg(widx[k]), ok)
          /\ editSwallowed' = (editSwallowed \/ ~ok)
    /\ UNCHANGED <<afterPause, lastProgress, writeFailed, pauseRepeat>>
    /\ LET q1 == Append(queue, wtemp[k][widx[k]])
       IN IF widx[k] < Len(wtemp[k])
          THEN /\ queue' = q1
               /\ widx' = [widx EXCEPT ![k] = widx[k] + 1]
               /\ UNCHANGED <<wpc, wjob, wtemp, wraise, wcancel>>
               /\ UNCHANGED <<is_processing, worker_task, status, started>>
          ELSE IF wraise[k]
               THEN /\ WorkerLeaves(k)
                    /\ queue' = q1
                    /\ UNCHANGED <<status, started>>
               ELSE WorkerLoop(k, q1, is_processing)
    /\ UNCHANGED <<paused, last_update_time, nextJob>>
    /\ UNCHANGED <<pauseWaiting, pauseHadActive, pauseActive, resumed,
                   freshJobs>>
    /\ UNCHANGED <<hVars, tVars, cbVars>>

\* The text of the edit a worker is awaiting at pc, and the job it is for.
PendingEditText(k) ==
    CASE wpc[k] = "edit_dl" -> Msg("Downloading")
      [] wpc[k] = "edit_ul" -> Msg("Uploading")
      [] wpc[k] = "edit_ok" -> Msg("Success")
      [] wpc[k] = "edit_auth" -> Msg("AuthError")
      [] wpc[k] = "edit_fail" -> Msg("UploadFailed")
      [] wpc[k] = "edit_stop" -> Msg("ForceStopped")
      [] wpc[k] = "edit_err" -> Msg("Error")
      [] wpc[k] = "uqs_edit" -> PosMsg(widx[k])
      [] OTHER -> Msg("none")
PendingEditJob(k) ==
    IF wpc[k] = "uqs_edit" THEN wtemp[k][widx[k]] ELSE wjob[k]
AwaitsEdit(k) ==
    wpc[k] \in {"edit_dl", "edit_ul", "edit_ok", "edit_auth", "edit_fail",
                "edit_stop", "edit_err", "uqs_edit"}

\* The awaits of process_job: lines 125-132 lie before the try of line
\* 134, lines 169-184 inside it (so the finally of line 186 runs).
BeforeTry == {"edit_dl", "download", "edit_ul"}
InsideTry == {"executor", "sleep", "edit_ok", "edit_auth", "edit_fail"}

\* CancelledError is thrown into the worker at the await it is suspended
\* in (Task.cancel of pause_bot line 61).  "except Exception" does not
\* catch it.  The request of an edit that was being awaited may or may not
\* have reached the server.
\*  - inside process_job: it leaves process_job (through the finally of
\*    line 186 when inside the try) and worker line 91 catches it: the
\*    "force-stopped" edit is awaited;
\*  - inside the handlers of worker lines 93-103: it leaves them through
\*    the finally of lines 104-107;
\*  - inside the update_queue_status of line 107: it leaves
\*    update_queue_status and the loop, and lines 108-112 end the
\*    activation; the jobs still in temp_list are not put back.
WorkerCancelled(k) ==
    /\ wcancel[k]
    /\ wpc[k] \notin {"none", "created"}
    /\ \E applied \in BOOLEAN :
        handle' = IF AwaitsEdit(k)
                  THEN Edit(handle, PendingEditJob(k), PendingEditText(k),
                            applied)
                  ELSE handle
    /\ CASE wpc[k] \in BeforeTry \cup InsideTry ->
              /\ WorkerGoes(k, "edit_stop")
              /\ status' = [status EXCEPT ![wjob[k]] = "Cancelled"]
              /\ last_update_time' = IF wpc[k] \in InsideTry
                                     THEN PopUpdateTime(wjob[k])
                                     ELSE last_update_time
         [] wpc[k] \in {"edit_stop", "edit_err"} ->
              /\ WorkerFinally(k, TRUE)
              /\ UNCHANGED <<status, last_update_time>>
         [] OTHER ->
              /\ WorkerLeaves(k)
              /\ UNCHANGED <<queue, status, last_update_time>>
    /\ UNCHANGED <<paused, nextJob>>
    /\ UNCHANGED <<hVars, tVars, cbVars, histVars>>
    /\ UNCHANGED obsVars

\* ------------------------------------------------------------ upload_file
\* The time of the last progress update of job j is v while a callback can
\* still run for it (thread at t, c callbacks scheduled), and is not
\* followed once none can.
Followed(lp, j, v, t, c) ==
    [lp EXCEPT ![j] = IF CallbackAhead(t, c) THEN v ELSE -1]

\* upload_file lines 75-77, in the executor thread: the cancellation poll
\* at the top of the chunk loop.
ThreadPoll(j) ==
    /\ tpc[j] = "poll"
    /\ tpc' = [tpc EXCEPT ![j] = IF check_cancelled THEN "raised_cancelled"
                                                    ELSE "chunk"]
    /\ lastProgress' = Followed(lastProgress, j, lastProgress[j],
                                tpc'[j], cbsched[j])
    /\ UNCHANGED nprogress
    /\ UNCHANGED <<afterPause, writeFailed, pauseRepeat, editSwallowed>>
    /\ UNCHANGED <<qmVars, jobVars, hVars, wVars, cbVars, histVars>>

\* One more chunk of job j went up after a pause_bot (counted up to 2).
ChunkCounted(j) ==
    [afterPause EXCEPT ![j] = IF @ \in 0..1 THEN @ + 1 ELSE @]

\* upload_file lines 79-87 and progress_callback_sync (process_job lines
\* 151-152), in the executor thread: next_chunk raises, or uploads a chunk
\* that is not the last (status is set: progress_callback_sync hands
\* progress_callback_async to the loop and the thread goes back to the
\* poll), or uploads the last chunk (response is set: the id is returned).
ThreadChunk(j) ==
    /\ tpc[j] = "chunk"
    /\ \/ /\ tpc' = [tpc EXCEPT ![j] = "raised_error"]
          /\ UNCHANGED <<nprogress, cbsched, afterPause>>
       \/ /\ Work < MaxWork
          /\ nprogress' = nprogress + 1
          /\ tpc' = [tpc EXCEPT ![j] = "poll"]
          /\ cbsched' = [cbsched EXCEPT ![j] = cbsched[j] + 1]
          /\ afterPause' = ChunkCounted(j)
       \/ /\ tpc' = [tpc EXCEPT ![j] = "returned"]
          /\ afterPause' = ChunkCounted(j)
          /\ UNCHANGED <<nprogress, cbsched>>
    /\ lastProgress' = Followed(lastProgress, j, lastProgress[j],
                                tpc'[j], cbsched'[j])
    /\ UNCHANGED <<writeFailed, pauseRepeat, editSwallowed>>
    /\ UNCHANGED <<qmVars, cbfly>>
    /\ UNCHANGED <<jobVars, hVars, wVars, histVars>>

\* process_job lines 138-147, on the event loop: a scheduled
\* progress_callback_async runs.  If the throttle is open the time is
\* recorded and the progress edit is awaited (sent), otherwise the event is
\* dropped.
ProgressCallback(j) ==
    /\ cbsched[j] > 0
    /\ cbsched' = [cbsched EXCEPT ![j] = cbsched[j] - 1]
    /\ IF ThrottleOpen(j)
       THEN /\ last_update_time' = [last_update_time EXCEPT ![j] = 0]
            /\ cbfly' = [cbfly EXCEPT ![j] = cbfly[j] + 1]
            /\ lastProgress' = Followed(lastProgress, j, 0,
                                        tpc[j], cbsched'[j])
       ELSE /\ UNCHANGED <<last_update_time, cbfly>>
            /\ lastProgress' = Followed(lastProgress, j, lastProgress[j],
                                        tpc[j], cbsched'[j])
    /\ UNCHANGED <<afterPause, writeFailed, pauseRepeat, editSwallowed>>
    /\ UNCHANGED <<queue, is_processing, paused, worker_task>>
    /\ UNCHANGED <<jobVars, hVars, wVars, tVars, histVars>>

\* process_job lines 147-149: a progress edit returned, or raised and was
\* swallowed.
ProgressEditDone(j) ==
    /\ cbfly[j] > 0
    /\ cbfly' = [cbfly EXCEPT ![j] = cbfly[j] - 1]
    /\ \E ok \in BOOLEAN :
          /\ handle' = Edit(handle, j, Msg("Progress"), ok)
          /\ editSwallowed' = (editSwallowed \/ ~ok)
    /\ UNCHANGED <<afterPause, lastProgress, writeFailed, pauseRepeat>>
    /\ UNCHANGED cbsched
    /\ UNCHANGED <<nextJob, status>>
    /\ UNCHANGED <<qmVars, hVars, wVars, tVars, histVars>>

\* time.time() advances by one second: the recorded times that can still
\* be read grow one second older.  Ages beyond the throttle window are not
\* told apart, and the age of an entry that nothing reads again is not
\* followed further.
Tick ==
    /\ \E j \in Jobs :
          /\ CallbackAhead(tpc[j], cbsched[j])
          /\ \/ last_update_time[j] \in 0..ThrottleSeconds
             \/ lastProgress[j] \in 0..ThrottleSeconds
    /\ last_update_time' =
          [j \in Jobs |->
              IF CallbackAhead(tpc[j], cbsched[j])
                 /\ last_update_time[j] \in 0..ThrottleSeconds
              THEN last_update_time[j] + 1
              ELSE last_update_time[j]]
    /\ lastProgress' =
          [j \in Jobs |->
              IF CallbackAhead(tpc[j], cbsched[j])
                 /\ lastProgress[j] \in 0..ThrottleSeconds
              THEN lastProgress[j] + 1
              ELSE lastProgress[j]]
    /\ UNCHANGED <<afterPause, writeFailed, pauseRepeat, editSwallowed>>
    /\ UNCHANGED <<queue, is_processing, paused, worker_task>>
    /\ UNCHANGED <<jobVars, hVars, wVars, tVars, cbVars, histVars>>

\* ------------------------------------------------------------------- Next
Next ==
    \/ AddJobBegin
    \/ AddJobRejected
    \/ AddJobAdmit
    \/ AddJobUqsStep
    \/ PauseBegin
    \/ PauseDrainStep
    \/ PauseReplied
    \/ ResumeBot
    \/ \E k \in Workers : WorkerStart(k)
    \/ \E k \in Workers : DownloadingEditDone(k)
    \/ \E k \in Workers : DownloadDone(k)
    \/ \E k \in Workers : UploadingEditDone(k)
    \/ \E k \in Workers : ExecutorDone(k)
    \/ \E k \in Workers : SleepDone(k)
    \/ \E k \in Workers : SuccessEditDone(k)
    \/ \E k \in Workers : FailEditDone(k)
    \/ \E k \in Workers : StopEditDone(k)
    \/ \E k \in Workers : ErrorEditDone(k)
    \/ \E k \in Workers : WorkerUqsStep(k)
    \/ \E k \in Workers : WorkerCancelled(k)
    \/ \E j \in Jobs : ThreadPoll(j)
    \/ \E j \in Jobs : ThreadChunk(j)
    \/ \E j \in Jobs : ProgressCallback(j)
    \/ \E j \in Jobs : ProgressEditDone(j)
    \/ Tick

Spec == Init /\ [][Next]_vars

\* ------------------------------------------------------------ properties
Range(q) == {q[i] : i \in 1..Len(q)}
LiveWorkers == {k \in Workers : wpc[k] # "none"}
InProcessJob == BeforeTry \cup InsideTry

\* Nothing is running and nothing is in flight: no handler, no worker
\* activation, no upload thread, no progress callback or edit.  From such a
\* state only
\* a new update (add_job, pause_bot, resume_bot) makes anything happen.
Quiescent ==
    /\ hpc = "idle"
    /\ LiveWorkers = {}
    /\ \A j \in Jobs : ~Uploads(j) /\ cbsched[j] = 0 /\ cbfly[j] = 0

\* C1: jobs are dequeued by the worker (and so reach Uploading) in the
\* order in which add_job put them on the queue; job ids are given in
\* that order, so the dequeue order is increasing.
C1_StartedInSubmissionOrder ==
    \A a, b \in 1..Len(started) : a < b => started[a] < started[b]

\* C2: at most one job is Downloading or Uploading, and at most one
\* worker activation is inside process_job.
C2_AtMostOneActiveJob ==
    /\ Cardinality({j \in Jobs : status[j] \in Active}) <= 1
    /\ Cardinality({k \in Workers : wpc[k] \in InProcessJob}) <= 1
C2_Witness ==
    /\ \E j \in Jobs : status[j] = "Uploading"
    /\ \E j \in Jobs : status[j] = "Queued"
    /\ hpc = "add_uqs_edit"

\* C3: every job put on the queue reaches a terminal state without any
\* further submission: once nothing is running or in flight, no job is
\* left Queued (or active).
C3_NoJobLeftBehind ==
    Quiescent => \A j \in Jobs : status[j] \in Terminal \cup {"None"}

\* C4: a pause_bot invoked with N jobs waiting and one job active returns
\* N, and each of those N jobs is Cancelled with the pause notice on its
\* status message (the notice is looked at in the runs in which no status
\* write has raised).
C4_PauseDrainsAllWaiting ==
    (hpc = "pause_reply" /\ pauseHadActive) =>
        /\ hcount = Cardinality(pauseWaiting)
        /\ \A j \in pauseWaiting :
              /\ status[j] = "Cancelled"
              /\ ~editSwallowed => handle[j] = Msg("PauseNotice")

\* C5: a job that was Downloading or Uploading when pause_bot was invoked
\* never ends Completed or Failed.
C5_ActiveJobEndsCancelled ==
    \A j \in pauseActive : status[j] \notin {"Completed", "Failed"}

\* C6: an add_job that begins while paused takes the rejection path and,
\* until it returns, changes nothing of the queue, is_processing,
\* worker_task, last_update_time or the jobs.
C6_Frame == UNCHANGED <<queue, is_processing, worker_task, last_update_time,
                        nextJob, status, handle>>
C6_PausedAddJobRejected ==
    [][ /\ (hpc = "idle" /\ paused /\ hpc' \in {"reject_reply", "queued_reply"})
            => (hpc' = "reject_reply" /\ C6_Frame)
        /\ (hpc = "reject_reply" /\ hpc' # hpc)
            => (hpc' = "idle" /\ C6_Frame) ]_vars
C6_Witness ==
    /\ hpc = "reject_reply"
    /\ paused
    /\ LiveWorkers # {}

\* C7: once pause_bot has returned and while paused is still true, the
\* queue is empty and no job is Queued.
C7_PausedMeansNothingQueued ==
    (paused /\ hpc # "drain_edit") =>
        (queue = <<>> /\ \A j \in Jobs : status[j] # "Queued")

\* C8: at most one worker activation exists at any time.
C8_OneWorkerActivation == Cardinality(LiveWorkers) <= 1
C8_Witness ==
    /\ hpc = "add_uqs_edit"
    /\ nextJob >= 2
    /\ Cardinality(LiveWorkers) = 1

\* C9: after resume_bot, an add_job that begins while not paused is not
\* rejected; when it builds its job the job is on the queue (or already
\* taken off it by the position republish of the same add_job), and if no
\* worker activation exists at that moment this add_job creates one.
C9_AdmittedAfterResume ==
    [][ /\ (resumed /\ ~paused /\ hpc = "idle") => hpc' # "reject_reply"
        /\ (resumed /\ hpc = "queued_reply" /\ nextJob' = nextJob + 1) =>
              /\ nextJob' \in Range(queue') \cup Range(htemp')
              /\ LiveWorkers = {} =>
                    \E k \in Workers : wpc'[k] = "created" /\ worker_task' = k
      ]_vars
C9_Witness ==
    /\ resumed
    /\ \E k \in Workers : wpc[k] = "created" /\ worker_task = k
    /\ queue # <<>>
    /\ \A i \in 1..Len(queue) : queue[i] \in freshJobs

\* C10: a job admitted after pause_bot and resume_bot (with no pause_bot
\* invoked since) is never Cancelled, and once nothing is running or in
\* flight it has been executed to Completed or Failed.
C10_FreshJobExecutes ==
    \A j \in freshJobs :
        /\ status[j] # "Cancelled"
        /\ Quiescent => status[j] \in {"Completed", "Failed"}

\* C11: once pause_bot has set the flag while the upload thread of a job
\* was running, that thread uploads at most one further chunk and never
\* returns a destination id.
C11_UploadAbortsAfterPause ==
    \A j \in Jobs :
        afterPause[j] >= 0 => (afterPause[j] <= 1 /\ tpc[j] # "returned")

\* The texts of the terminal status messages.
TerminalTexts == {"Success", "AuthError", "UploadFailed", "Error",
                  "ForceStopped", "PauseNotice"}

\* C12: once a terminal message is on a job's status handle, no progress
\* or queue-position text is written to that handle afterwards.
C12_TerminalWriteIsLast ==
    [][ \A j \in Jobs :
            handle[j].text \in TerminalTexts
                => handle'[j].text \in TerminalTexts ]_vars

\* C13: a progress update is let through for a job only if none was let
\* through for it before, or the previous one was at least ThrottleSeconds
\* earlier on the clock.
C13_ProgressUpdatesSpaced ==
    [][ \A j \in Jobs :
            cbfly'[j] > cbfly[j]
                => (lastProgress[j] = -1
                    \/ lastProgress[j] >= ThrottleSeconds) ]_vars

\* C14: last_update_time holds no entry for a job that has terminated.
C14_NoEntryForTerminatedJob ==
    \A j \in Jobs : status[j] \in Terminal => last_update_time[j] = -1

\* C15: a job for which an unprotected status write (Downloading,
\* Uploading, success) raised does not end Failed on that account.
C15_WriteFailureKeepsOutcome ==
    \A j \in writeFailed : status[j] # "Failed"

\* A step in which worker k is done with a job that failed (the failure
\* message of process_job or of the worker was written or swallowed), not
\* being cancelled.
FinishesFailedJob(k) ==
    /\ wpc[k] \in {"edit_auth", "edit_fail", "edit_err"}
    /\ ~wcancel[k]
    /\ wpc'[k] \in {"none", "uqs_edit", "edit_dl"}

\* C16: when a job has failed (not by the operator's pause), no other
\* job's status changes with it, and while the bot is not paused and some
\* job is still Queued the same activation stays alive; at the end of its
\* position republish it dequeues the next job.
C16_FailureIsolated ==
    [][ \A k \in Workers :
          /\ FinishesFailedJob(k) =>
                /\ \A j \in Jobs : j # wjob[k] => status'[j] = status[j]
                /\ (~paused /\ \E j \in Jobs : status[j] = "Queued")
                      => wpc'[k] # "none"
          /\ (wpc[k] = "uqs_edit" /\ ~wcancel[k] /\ ~wraise[k] /\ ~paused
                /\ wpc'[k] # "uqs_edit")
                => wpc'[k] = "edit_dl" ]_vars

\* C17: when a worker activation ends the system is idle (is_processing
\* False, worker_task None); an add_job admitted while no activation exists
\* creates one, and the first step of an activation takes the head job off
\* the queue and starts executing it.
C17_ReturnsToIdle ==
    [][ /\ LiveWorkers' = {} => (~is_processing' /\ worker_task' = 0)
        /\ (hpc = "queued_reply" /\ nextJob' = nextJob + 1
                /\ LiveWorkers = {})
              => \E k \in Workers : wpc'[k] = "created" /\ worker_task' = k
        /\ \A k \in Workers :
              (wpc[k] = "created" /\ wpc'[k] # "created")
                  => /\ queue # <<>>
                     /\ wpc'[k] = "edit_dl"
                     /\ wjob'[k] = Head(queue)
                     /\ status'[Head(queue)] = "Downloading" ]_vars
C17_Witness ==
    /\ \E k \in Workers : wpc[k] = "created"
    /\ \E j \in Jobs : status[j] = "Failed"
    /\ Cardinality(LiveWorkers) = 1

\* C18: right after the worker has dequeued a job, every job still on the
\* queue that has been shown a position is shown its 1-based index in the
\* queue (in the runs in which no status write has raised).
C18_PositionsMatchQueue ==
    [][ (Len(started') > Len(started) /\ ~editSwallowed')
            => \A i \in 1..Len(queue') :
                   handle'[queue'[i]].text = "Position"
                       => handle'[queue'[i]].pos = i ]_vars

\* The edit_text calls on job j's status message that have been sent and
\* have not returned: progress edits, the edit a worker awaits, the edit
\* add_job's update_queue_status or pause_bot awaits.
WritesInFlight(j) ==
    cbfly[j]
    + Cardinality({k \in Workers : AwaitsEdit(k) /\ PendingEditJob(k) = j})
    + (IF hpc = "add_uqs_edit" /\ htemp[hidx] = j THEN 1 ELSE 0)
    + (IF hpc = "drain_edit" /\ hjob = j THEN 1 ELSE 0)

\* C19: at most one write to a job's status handle is in flight.
C19_OneWriteInFlight ==
    \A j \in Jobs : WritesInFlight(j) <= 1

\* C20: a pause_bot invoked while paused is already true and the queue is
\* empty returns 0 and leaves paused, the queue and every job's status as
\* they were; the cancel it requests hits no activation that holds jobs;
\* and no step ever changes the status of a terminal job.
C20_PauseIdempotent ==
    [][ /\ (hpc = "idle" /\ paused /\ queue = <<>>
                /\ hpc' \in {"pause_reply", "drain_edit"})
              => /\ hpc' = "pause_reply"
                 /\ hcount' = 0
                 /\ paused'
                 /\ queue' = <<>>
                 /\ status' = status
                 /\ \A k \in Workers :
                       (wcancel'[k] /\ ~wcancel[k]) => wtemp[k] = <<>>
        /\ \A j \in Jobs :
              status[j] \in Terminal => status'[j] = status[j] ]_vars
C20_Witness ==
    /\ hpc = "pause_reply"
    /\ pauseRepeat
    /\ hcount = 0
    /\ \E k \in Workers : wcancel[k] /\ wpc[k] = "edit_stop"

\* C21: resume_bot changes only the pause flag: the queue, is_processing,
\* worker_task, the worker activations and every job stay as they were;
\* and after it no job is dequeued until an add_job has been admitted.
C21_ResumeOnlyClearsFlag ==
    [][ /\ (paused /\ ~paused')
              => /\ UNCHANGED <<queue, is_processing, worker_task,
                                last_update_time>>
                 /\ UNCHANGED <<status, handle, nextJob>>
                 /\ UNCHANGED <<wpc, wjob, wtemp, wcancel>>
        /\ (resumed /\ ~paused /\ freshJobs = {})
              => (started' = started
                  /\ \A j \in Jobs : status'[j] \in Active
                                        => status[j] \in Active) ]_vars
C21_Witness ==
    /\ resumed
    /\ ~paused
    /\ freshJobs = {}
    /\ hpc = "idle"
    /\ is_processing
    /\ \E k \in Workers : wpc[k] = "edit_stop"

\* C22: when the job of an activation has ended with the cancellation
\* signal (the worker awaits the force-stopped edit), the job is Cancelled;
\* when the worker moves on, the force-stopped notice is on the job's
\* status handle (in the runs in which no status write has raised), and
\* the activation ends (through the position republish of its finally)
\* without dequeuing another job.
C22_CancelledJobNotified ==
    [][ \A k \in Workers :
          /\ (wpc[k] = "edit_stop" /\ wpc'[k] # "edit_stop")
                => /\ status[wjob[k]] = "Cancelled"
                   /\ ~editSwallowed'
                         => handle'[wjob[k]] = Msg("ForceStopped")
                   /\ wpc'[k] \in {"none", "uqs_edit"}
                   /\ started' = started
          /\ (wpc[k] = "uqs_edit" /\ wraise[k])
                => (wpc'[k] \in {"none", "uqs_edit"}
                    /\ started' = started) ]_vars

\* The jobs an update_queue_status in progress has taken off the queue and
\* not yet put back, and the job pause_bot has taken and is notifying.
HeldByHandler ==
    IF hpc = "add_uqs_edit" THEN {htemp[i] : i \in hidx..Len(htemp)}
    ELSE IF hpc = "drain_edit" THEN {hjob}
    ELSE {}
HeldByWorker(k) ==
    IF wpc[k] = "uqs_edit" THEN {wtemp[k][i] : i \in widx[k]..Len(wtemp[k])}
    ELSE {}
Held == Range(queue) \cup HeldByHandler
            \cup UNION {HeldByWorker(k) : k \in Workers}

\* C23: a job the worker has dequeued is dequeued once, is never Queued
\* again, is neither on the queue nor in a temp_list, and no position
\* edit is sent to it (position edits in flight are for Queued jobs).
C23_ExecutedAtMostOnce ==
    /\ \A a, b \in 1..Len(started) : a # b => started[a] # started[b]
    /\ \A j \in Range(started) : status[j] # "Queued" /\ j \notin Held
    /\ \A k \in Workers :
          wpc[k] = "uqs_edit" => status[wtemp[k][widx[k]]] = "Queued"
    /\ hpc = "add_uqs_edit" => status[htemp[hidx]] = "Queued"
C23_Witness ==
    /\ Len(started) >= 1
    /\ \E k \in Workers : wpc[k] = "uqs_edit"
    /\ hpc = "add_uqs_edit"

\* C24: update_queue_status preserves the queue: every Queued job is on
\* the queue or held by a running update_queue_status / pause_bot (none is
\* lost), and when no update_queue_status is in progress the queue is in
\* submission order (the jobs it held went back in their order and ahead
\* of those put meanwhile).
C24_QueuePreserved ==
    /\ \A j \in Jobs : status[j] = "Queued" => j \in Held
    /\ (hpc # "add_uqs_edit" /\ \A k \in Workers : wpc[k] # "uqs_edit")
          => \A a, b \in 1..Len(queue) : a < b => queue[a] < queue[b]

\* C25: a job reported Cancelled has no destination object: its upload
\* thread has not returned an id.
C25_CancelledHasNoObject ==
    \A j \in Jobs : status[j] = "Cancelled" => tpc[j] # "returned"

====
